---- MODULE Spec2Model ----
(***************************************************************************)
(* camtrack: the live media delivery pipeline.                             *)
(*                                                                         *)
(*  - the client ingest buffer of useVideoStream (src/unnamed/part_002):   *)
(*    bufferQueue, processBuffer / processNextChunk, the SourceBuffer      *)
(*    listeners and the three timer chains;                                *)
(*  - the server session of the connection handler (src/unnamed/part_000): *)
(*    createTranscoder, createSequentialTranscoder, the message handler,   *)
(*    the heartbeat and the teardown paths;                                *)
(*  - the connection handler of the standalone proxy                       *)
(*    (src/proxy/index.js).                                                *)
(*                                                                         *)
(* The parts share no state; each has its own specification (SpecClient,   *)
(* SpecServer, SpecProxy) that leaves the other parts' variables alone.    *)
(***************************************************************************)
EXTENDS Integers, Sequences, FiniteSets, TLC

VARIABLES
    \* ---- client ingest buffer (src/unnamed/part_002) ----
    bufferQueue,            \* bufferQueue.current: fragment ids, head first
    processingQueue,        \* processingQueue.current
    chunkErrorCount,        \* chunkErrorCount.current
    isActive,               \* isActiveRef.current
    initialSegmentReceived, \* initialSegmentReceived.current
    connectionStatus,       \* the connectionStatus state of the hook
    msReadyState,           \* mediaSourceRef.current.readyState ("none": no
                            \* MediaSource was created yet)
    sbPresent,              \* sourceBufferRef.current is set
    sinkOp,                 \* what the SourceBuffer is doing; updating <=> not "idle"
    cleanupTimer,           \* bufferCleanupInterval.current is set
    pollTimers,             \* pending 20 ms timers of the not-ready branch
    retryTimers,            \* pending 50 ms timers of the catch branch
    updateEndTimers,        \* pending 50 ms timers of updateEndHandler
    arrived,                \* number of binary fragments delivered so far
    lastAppended,           \* id of the last fragment passed to appendBuffer (0: none)
    appendEvent,            \* what the last callback did with appendBuffer:
                            \* "none" (no call), "ok" (accepted), "threw"
    resetPhase,             \* history: "none", "reset" (budget exhausted, nothing
                            \* arrived since), "resumed" (the arrival after it was appended)
    sockets,                \* readyState of every WebSocket the hook created:
                            \* "none" (not created yet), "CONNECTING", "OPEN",
                            \* "CLOSING", "CLOSED"
    wsRef,                  \* wsRef.current: a socket id, 0 when null
    selectedCameras,        \* the hook's arguments at the last run of the main
    isSelectionComplete,    \* effect
    closureCameras,         \* selectedCameras in the closure of the memoized
                            \* connectToWebSocket
    wsUrl,                  \* per socket: the URL it was created with
    \* ---- server session (src/unnamed/part_000, one connection) ----
    wsReadyState,           \* ws.readyState: "OPEN", "CLOSING", "CLOSED"
    closeCode,              \* code of the server's ws.close call that took effect (0: none)
    outbox,                 \* what the last callback sent to the client, in order
    cameraIdsParam,         \* the cameraIds connection parameter: the number of
                            \* ids it lists (0: the parameter is absent or empty)
    nCameras,               \* cameraIds.length
    useMemoryOptimization,  \* the memoryOptimized connection parameter
    transcoder,             \* the handler's transcoder variable
    isAlive,                \* heartbeat flag
    pingState,              \* history of the heartbeat: "none" (no tick has run yet),
                            \* "pending" (the last tick sent a ping, no pong
                            \* since), "unsent" (the last tick sent none),
                            \* "answered" (a pong arrived after the last tick)
    heartbeatOn,            \* heartbeatInterval is running
    initTimer,              \* the 100 ms initialization timer is pending
    isInitialized,
    memoryErrorDetected,
    connectionClosed,
    procs,                  \* the ffmpeg processes spawned by createTranscoder
    seqs,                   \* the closures of createSequentialTranscoder
    activeTranscoders,      \* activeTranscoders.get(ws): a process id, 0 when absent
    fatalDetected,          \* history: a memory or RTSP diagnostic was seen
    serverPhase,            \* the server process: "up", "stopping" (shutdown() has
                            \* run), "exited" (process.exit(0) was called)
    \* ---- standalone proxy (src/proxy/index.js, its connections) ----
    conns,                  \* per connection: what its handler has set up
    \* ---- client hook, mux.js variant (src/unnamed/part_001) ----
    muxQueue,               \* bufferQueue.current: fragments by arrival number
    muxProcessing,          \* processingQueue.current
    muxUpdating,            \* sourceBufferRef.current.updating
    muxOpen,                \* mediaSourceRef.current.readyState === "open"
    muxActive,              \* isActiveRef.current
    muxArrived,             \* history: binary frames received so far
    muxLastCall             \* history: the fragment of the last appendBuffer call

clientVars == <<bufferQueue, processingQueue, chunkErrorCount, isActive,
                initialSegmentReceived, connectionStatus, msReadyState, sbPresent,
                sinkOp, cleanupTimer, pollTimers, retryTimers, updateEndTimers,
                arrived, lastAppended, appendEvent, resetPhase, sockets, wsRef,
                selectedCameras, isSelectionComplete, closureCameras, wsUrl>>

serverVars == <<wsReadyState, closeCode, outbox, cameraIdsParam, nCameras,
                useMemoryOptimization, transcoder, isAlive, pingState, heartbeatOn, initTimer, isInitialized, memoryErrorDetected,
                connectionClosed, procs, seqs, activeTranscoders, fatalDetected,
                serverPhase>>

proxyVars == <<conns>>

selectionVars == <<selectedCameras, isSelectionComplete, closureCameras, wsUrl>>

muxVars == <<muxQueue, muxProcessing, muxUpdating, muxOpen, muxActive, muxArrived,
             muxLastCall>>

vars == <<clientVars, serverVars, proxyVars, muxVars>>

-----------------------------------------------------------------------------
(* Bounds of the model and constants of the program.                       *)

\* Fragments delivered over one run; more than QueueLimit + 1 so that the
\* admission trim is reached while the sink consumes nothing.
MaxFrags == 12

\* Pending timers of one kind at any time.
MaxTimers == 2

\* config.detection.maxChunkErrors: VITE_MAX_CHUNK_ERRORS, 50 when unset.  The
\* model runs the configuration with a small budget.
maxChunkErrors == 3

\* handleWebSocketMessage: if (bufferQueue.current.length > 10)
QueueLimit == 10

\* handleWebSocketMessage: bufferQueue.current.splice(0, 5)
TrimCount == 5

\* The one fragment of the run that carries no bytes (data.byteLength === 0).
EmptyFragment == 4

\* WebSockets the hook creates over one run (one per run of the main effect
\* with a complete selection).
MaxSockets == 2

SocketIds == 1..MaxSockets

\* The selections the user makes over a run: none, five cameras, and two
\* different sets of six.
Selections == {<<>>, <<1, 2, 3, 4, 5>>, <<1, 2, 3, 4, 5, 6>>, <<7, 8, 9, 10, 11, 12>>}

ByteLength(f) == IF f = EmptyFragment THEN 0 ELSE 1

Range(s) == {s[i] : i \in 1..Len(s)}

\* Array.prototype.splice(0, n): drop the first n entries (all, if fewer).
Splice0(s, n) == IF Len(s) <= n THEN <<>> ELSE SubSeq(s, n + 1, Len(s))

-----------------------------------------------------------------------------
(* The ingest buffer as a record, so that processBuffer can call           *)
(* processNextChunk inside one callback.                                   *)

ClientState ==
    [q |-> bufferQueue, pq |-> processingQueue, err |-> chunkErrorCount,
     active |-> isActive, ms |-> msReadyState, sb |-> sbPresent, op |-> sinkOp,
     poll |-> pollTimers, retry |-> retryTimers, uet |-> updateEndTimers,
     last |-> lastAppended, ev |-> "none", phase |-> resetPhase]

Commit(c) ==
    \E d \in {c} :
        /\ d.poll <= MaxTimers /\ d.retry <= MaxTimers /\ d.uet <= MaxTimers
        /\ bufferQueue' = d.q
        /\ processingQueue' = d.pq
        /\ chunkErrorCount' = d.err
        /\ sinkOp' = d.op
        /\ pollTimers' = d.poll
        /\ retryTimers' = d.retry
        /\ updateEndTimers' = d.uet
        /\ lastAppended' = d.last
        /\ appendEvent' = d.ev
        /\ resetPhase' = d.phase

\* The guard in front of appendBuffer.
SinkReadyMutant(c) == c.sb /\ c.ms = "open"
SinkReady(c) == c.sb /\ c.ms = "open" /\ c.op = "idle"

\* The else branch: the sink is not ready, the chunk goes back to the head.
RequeueMutant(c, data) == [c EXCEPT !.q = Append(c.q, data)]
Requeue(c, data) == [c EXCEPT !.q = <<data>> \o c.q]

\* The catch branch of processNextChunk; c is the state after the shift and
\* the increment of chunkErrorCount.
AppendFailedNoReset(c, data) ==
    IF c.err < maxChunkErrors
    THEN [c EXCEPT !.retry = @ + 1]
    ELSE [c EXCEPT !.q = <<>>, !.pq = FALSE, !.phase = "reset"]
AppendFailedKeep(c, data) ==
    IF c.err < maxChunkErrors
    THEN [c EXCEPT !.retry = @ + 1, !.q = <<data>> \o c.q]
    ELSE [c EXCEPT !.q = <<>>, !.err = 0, !.pq = FALSE, !.phase = "reset"]
AppendFailed(c, data) ==
    IF c.err < maxChunkErrors
    THEN [c EXCEPT !.retry = @ + 1]
    ELSE [c EXCEPT !.q = <<>>, !.err = 0, !.pq = FALSE, !.phase = "reset"]

\* processNextChunk; throws: whether appendBuffer throws, if it is called.
processNextChunk(c, throws) ==
    IF c.q = <<>> \/ ~c.active
    THEN [c EXCEPT !.pq = FALSE]
    ELSE LET data == Head(c.q)
             c1 == [c EXCEPT !.q = Tail(c.q)]
         IN IF SinkReady(c1)
            THEN IF throws
                 THEN AppendFailed([c1 EXCEPT !.err = @ + 1, !.last = data,
                                              !.ev = "threw"], data)
                 ELSE [c1 EXCEPT !.op = "append", !.err = 0, !.last = data,
                                 !.ev = "ok",
                                 !.phase = IF @ = "next" THEN "resumed" ELSE @]
            ELSE LET c2 == IF ByteLength(data) > 0 THEN Requeue(c1, data) ELSE c1
                 IN [c2 EXCEPT !.poll = @ + 1]

\* processBuffer (isRecoveringRef is never set to true anywhere in the hook).
processBuffer(c, throws) ==
    IF c.pq \/ c.q = <<>>
    THEN c
    ELSE processNextChunk([c EXCEPT !.pq = TRUE], throws)

\* Queue admission of handleWebSocketMessage.
AdmitTrimsTail(q, f) ==
    Append(IF Len(q) > QueueLimit THEN SubSeq(q, 1, Len(q) - TrimCount) ELSE q, f)
Admit(q, f) == Append(IF Len(q) > QueueLimit THEN Splice0(q, TrimCount) ELSE q, f)

-----------------------------------------------------------------------------
(* Client actions: one per callback.                                       *)

\* buildWebSocketUrl(cameraIds, "mp4"): the ids joined with ",".
buildWebSocketUrl(cameraIds) == [cameraIds |-> cameraIds, codecType |-> "mp4"]

NoUrl == [cameraIds |-> <<>>, codecType |-> "none"]

\* The test of the main effect: isSelectionComplete and 6 cameras.
ShouldConnect(cameras, complete) == complete /\ Len(cameras) = 6

\* The state after the first render and the first run of the main effect,
\* for the arguments of that render.
ClientInitWith(cameras, complete) ==
    /\ bufferQueue = <<>>
    /\ processingQueue = FALSE
    /\ chunkErrorCount = 0
    /\ isActive = TRUE
    /\ initialSegmentReceived = FALSE
    /\ connectionStatus = IF ShouldConnect(cameras, complete) THEN "connecting" ELSE "disconnected"
    \* setupMediaSource has run when the effect took its connecting branch
    /\ msReadyState = IF ShouldConnect(cameras, complete) THEN "closed" ELSE "none"
    /\ sbPresent = FALSE
    /\ sinkOp = "idle"
    /\ cleanupTimer = FALSE
    /\ pollTimers = 0
    /\ retryTimers = 0
    /\ updateEndTimers = 0
    /\ arrived = 0
    /\ lastAppended = 0
    /\ appendEvent = "none"
    /\ resetPhase = "none"
    /\ sockets = [k \in SocketIds |->
                    IF k = 1 /\ ShouldConnect(cameras, complete) THEN "CONNECTING" ELSE "none"]
    /\ wsRef = IF ShouldConnect(cameras, complete) THEN 1 ELSE 0
    /\ selectedCameras = cameras
    /\ isSelectionComplete = complete
    /\ closureCameras = cameras
    /\ wsUrl = [k \in SocketIds |->
                    IF k = 1 /\ ShouldConnect(cameras, complete)
                    THEN buildWebSocketUrl(cameras) ELSE NoUrl]

\* The hook as App mounts it in the runs of the ingest path: six cameras
\* selected.
ClientInit == ClientInitWith(<<1, 2, 3, 4, 5, 6>>, TRUE)

\* ws.onopen of socket k: the handshake is done; the handler sends
\* request_init when the hook is active and writes nothing else.
WsOnOpen(k) ==
    /\ UNCHANGED <<serverVars, proxyVars, muxVars>>
    /\ sockets[k] = "CONNECTING"
    /\ sockets' = [sockets EXCEPT ![k] = "OPEN"]
    /\ appendEvent' = "none"
    /\ UNCHANGED <<bufferQueue, processingQueue, chunkErrorCount, isActive,
                   initialSegmentReceived, connectionStatus, msReadyState, sbPresent,
                   sinkOp, cleanupTimer, pollTimers, retryTimers, updateEndTimers,
                   arrived, lastAppended, resetPhase, wsRef, selectionVars>>

\* handleWebSocketMessage with a binary frame: ws.onmessage of a socket that
\* is open (a socket that is closing or closed dispatches no message event).
handleWebSocketMessage(throws) ==
    /\ UNCHANGED <<serverVars, proxyVars, muxVars, sockets, wsRef, selectionVars>>
    /\ \E k \in SocketIds : sockets[k] = "OPEN"
    /\ arrived < MaxFrags
    /\ arrived' = arrived + 1
    /\ IF ~isActive
       THEN /\ appendEvent' = "none"
            /\ UNCHANGED <<bufferQueue, processingQueue, chunkErrorCount, sinkOp,
                           pollTimers, retryTimers, updateEndTimers, lastAppended,
                           resetPhase, initialSegmentReceived, connectionStatus>>
       ELSE LET c0 == [ClientState EXCEPT !.q = Admit(bufferQueue, arrived + 1),
                                          !.phase = IF @ = "reset" THEN "next" ELSE @]
                c1 == IF ~c0.pq THEN processBuffer(c0, throws) ELSE c0
                \* the arrival after a reset that is not appended ends the episode
                c2 == [c1 EXCEPT !.phase = IF @ = "next" THEN "none" ELSE @]
            IN /\ Commit(c2)
               /\ initialSegmentReceived' = TRUE
               /\ connectionStatus' = IF ~initialSegmentReceived THEN "connected"
                                      ELSE connectionStatus
    /\ UNCHANGED <<isActive, msReadyState, sbPresent, cleanupTimer>>

\* The 20 ms timer of the not-ready branch.
PollTimerFires(throws) ==
    /\ UNCHANGED <<serverVars, proxyVars, muxVars, sockets, wsRef, selectionVars>>
    /\ pollTimers > 0
    /\ Commit(processBuffer([ClientState EXCEPT !.poll = @ - 1, !.pq = FALSE], throws))
    /\ UNCHANGED <<isActive, initialSegmentReceived, connectionStatus, msReadyState,
                   sbPresent, cleanupTimer, arrived>>

\* The 50 ms timer of the catch branch: setTimeout(processNextChunk, 50).
RetryTimerFires(throws) ==
    /\ UNCHANGED <<serverVars, proxyVars, muxVars, sockets, wsRef, selectionVars>>
    /\ retryTimers > 0
    /\ Commit(processNextChunk([ClientState EXCEPT !.retry = @ - 1], throws))
    /\ UNCHANGED <<isActive, initialSegmentReceived, connectionStatus, msReadyState,
                   sbPresent, cleanupTimer, arrived>>

\* The 50 ms timer of updateEndHandler: setTimeout(processBuffer, 50).
UpdateEndTimerFires(throws) ==
    /\ UNCHANGED <<serverVars, proxyVars, muxVars, sockets, wsRef, selectionVars>>
    /\ updateEndTimers > 0
    /\ Commit(processBuffer([ClientState EXCEPT !.uet = @ - 1], throws))
    /\ UNCHANGED <<isActive, initialSegmentReceived, connectionStatus, msReadyState,
                   sbPresent, cleanupTimer, arrived>>

\* The sink ends its append or remove: updating becomes false and updateend
\* is dispatched to updateEndHandler.
updateEndHandlerKeepsBusy ==
    /\ UNCHANGED <<serverVars, proxyVars, muxVars, sockets, wsRef, selectionVars>>
    /\ sinkOp # "idle"
    /\ LET c0 == [ClientState EXCEPT !.op = "idle"]
           c1 == IF ~c0.active THEN c0
                 ELSE [c0 EXCEPT !.uet = IF c0.q # <<>> THEN @ + 1 ELSE @]
       IN Commit(c1)
    /\ UNCHANGED <<isActive, initialSegmentReceived, connectionStatus, msReadyState,
                   sbPresent, cleanupTimer, arrived>>
updateEndHandler ==
    /\ UNCHANGED <<serverVars, proxyVars, muxVars, sockets, wsRef, selectionVars>>
    /\ sinkOp # "idle"
    /\ LET c0 == [ClientState EXCEPT !.op = "idle"]
           c1 == IF ~c0.active THEN c0
                 ELSE [c0 EXCEPT !.pq = FALSE,
                                 !.uet = IF c0.q # <<>> THEN @ + 1 ELSE @]
       IN Commit(c1)
    /\ UNCHANGED <<isActive, initialSegmentReceived, connectionStatus, msReadyState,
                   sbPresent, cleanupTimer, arrived>>

\* The SourceBuffer's error event, once for an append that fails in the sink;
\* the updateend of that append follows.
SourceBufferErrorFatal ==
    /\ UNCHANGED <<serverVars, proxyVars, muxVars, sockets, wsRef, selectionVars>>
    /\ sinkOp = "append"
    /\ Commit([ClientState EXCEPT !.op = "failing", !.pq = FALSE])
    /\ connectionStatus' = "error"
    /\ UNCHANGED <<isActive, initialSegmentReceived, msReadyState,
                   sbPresent, cleanupTimer, arrived>>
SourceBufferError ==
    /\ UNCHANGED <<serverVars, proxyVars, muxVars, sockets, wsRef, selectionVars>>
    /\ sinkOp = "append"
    /\ Commit([ClientState EXCEPT !.op = "failing", !.pq = FALSE])
    /\ UNCHANGED <<isActive, initialSegmentReceived, connectionStatus, msReadyState,
                   sbPresent, cleanupTimer, arrived>>

\* handleSourceOpen: the MediaSource opens; addSourceBuffer may throw.
handleSourceOpen(addThrows) ==
    /\ UNCHANGED <<serverVars, proxyVars, muxVars, sockets, wsRef, selectionVars>>
    /\ msReadyState = "closed"
    /\ msReadyState' = "open"
    /\ IF ~isActive
       THEN UNCHANGED <<sbPresent, cleanupTimer, connectionStatus>>
       ELSE IF addThrows
            THEN /\ connectionStatus' = "error"
                 /\ UNCHANGED <<sbPresent, cleanupTimer>>
            ELSE /\ sbPresent' = TRUE
                 /\ cleanupTimer' = TRUE
                 /\ UNCHANGED connectionStatus
    \* sourceBufferRef.current is the new SourceBuffer, which is not updating
    /\ sinkOp' = IF isActive /\ ~addThrows THEN "idle" ELSE sinkOp
    /\ appendEvent' = "none"
    /\ UNCHANGED <<bufferQueue, processingQueue, chunkErrorCount, isActive,
                   initialSegmentReceived, pollTimers, retryTimers,
                   updateEndTimers, arrived, lastAppended, resetPhase>>

\* cleanupSourceBuffer on the 30 s interval; videoError: video.error is set;
\* stale: something is buffered and more than 20 s of it lie behind the
\* playhead.  remove() on the buffer of a MediaSource that is not open throws,
\* which the catch swallows.
cleanupSourceBufferWhileUpdating(videoError, stale) ==
    /\ UNCHANGED <<serverVars, proxyVars, muxVars, sockets, wsRef, selectionVars>>
    /\ cleanupTimer
    /\ sinkOp' = IF sbPresent /\ ~videoError /\ stale /\ msReadyState = "open"
                 THEN "remove" ELSE sinkOp
    /\ UNCHANGED <<bufferQueue, processingQueue, chunkErrorCount, isActive,
                   initialSegmentReceived, connectionStatus, msReadyState, sbPresent,
                   cleanupTimer, pollTimers, retryTimers, updateEndTimers, arrived,
                   lastAppended, resetPhase>>
    /\ appendEvent' = "none"
cleanupSourceBuffer(videoError, stale) ==
    /\ UNCHANGED <<serverVars, proxyVars, muxVars, sockets, wsRef, selectionVars>>
    /\ cleanupTimer
    /\ sinkOp' = IF sbPresent /\ ~videoError /\ sinkOp = "idle" /\ stale
                        /\ msReadyState = "open"
                 THEN "remove" ELSE sinkOp
    /\ UNCHANGED <<bufferQueue, processingQueue, chunkErrorCount, isActive,
                   initialSegmentReceived, connectionStatus, msReadyState, sbPresent,
                   cleanupTimer, pollTimers, retryTimers, updateEndTimers, arrived,
                   lastAppended, resetPhase>>
    /\ appendEvent' = "none"

\* WebSocket.close() on wsRef.current = k: a socket that is connecting or
\* open starts closing; its close event comes later.
CloseSocket(S, k) ==
    IF k # 0 /\ S[k] \in {"CONNECTING", "OPEN"} THEN [S EXCEPT ![k] = "CLOSING"] ELSE S

\* The cleanup of the main effect (unmount, or before the effect runs again).
EffectCleanup ==
    /\ UNCHANGED <<serverVars, proxyVars, muxVars>>
    /\ isActive /\ wsRef # 0
    /\ isActive' = FALSE
    /\ sockets' = CloseSocket(sockets, wsRef)
    /\ wsRef' = 0
    /\ cleanupTimer' = FALSE
    /\ UNCHANGED selectionVars
    /\ UNCHANGED <<bufferQueue, processingQueue, chunkErrorCount,
                   initialSegmentReceived, connectionStatus, msReadyState, sbPresent,
                   sinkOp, pollTimers, retryTimers, updateEndTimers, arrived,
                   lastAppended, resetPhase>>
    /\ appendEvent' = "none"

Created(S) == {k \in SocketIds : S[k] # "none"}

\* connectToWebSocket (isActiveRef.current is true when the effect calls it);
\* S: the sockets so far.
connectToWebSocket(S) ==
    LET k == Cardinality(Created(S)) + 1
    IN /\ k <= MaxSockets
       /\ connectionStatus' = "connecting"
       /\ sockets' = [S EXCEPT ![k] = "CONNECTING"]
       /\ wsUrl' = [wsUrl EXCEPT ![k] = buildWebSocketUrl(closureCameras)]
       /\ wsRef' = k

\* The close of socket k (the server closed it, the connection failed, or the
\* handshake of an earlier close() ended): readyState becomes CLOSED and, in
\* one task, ws.onerror runs if the connection failed and then ws.onclose.
WsOnCloseReconnects(k, failed) ==
    /\ UNCHANGED <<serverVars, proxyVars, muxVars>>
    /\ sockets[k] \in {"CONNECTING", "OPEN", "CLOSING"}
    /\ IF isActive
       THEN connectToWebSocket([sockets EXCEPT ![k] = "CLOSED"])
       ELSE /\ sockets' = [sockets EXCEPT ![k] = "CLOSED"]
            /\ UNCHANGED <<connectionStatus, wsRef, wsUrl>>
    /\ UNCHANGED <<selectedCameras, isSelectionComplete, closureCameras>>
    /\ appendEvent' = "none"
    /\ UNCHANGED <<bufferQueue, processingQueue, chunkErrorCount, isActive,
                   initialSegmentReceived, msReadyState, sbPresent, sinkOp,
                   cleanupTimer, pollTimers, retryTimers, updateEndTimers, arrived,
                   lastAppended, resetPhase>>
WsOnClose(k, failed) ==
    /\ UNCHANGED <<serverVars, proxyVars, muxVars>>
    /\ sockets[k] \in {"CONNECTING", "OPEN", "CLOSING"}
    /\ sockets' = [sockets EXCEPT ![k] = "CLOSED"]
    /\ LET afterError == IF failed /\ isActive THEN "error" ELSE connectionStatus
       IN connectionStatus' = IF isActive THEN "disconnected" ELSE afterError
    /\ appendEvent' = "none"
    /\ UNCHANGED <<bufferQueue, processingQueue, chunkErrorCount, isActive,
                   initialSegmentReceived, msReadyState, sbPresent, sinkOp,
                   cleanupTimer, pollTimers, retryTimers, updateEndTimers, arrived,
                   lastAppended, resetPhase, wsRef, selectionVars>>

\* The main effect runs (mount, or a change of selectedCameras or
\* isSelectionComplete) once the cleanup the previous run returned, if it
\* returned one, has run; cameras, complete: the hook's arguments.
MainEffect(cameras, complete) ==
    /\ UNCHANGED <<serverVars, proxyVars, muxVars>>
    /\ ~isActive \/ wsRef = 0
    /\ isActive' = TRUE
    /\ initialSegmentReceived' = FALSE
    /\ chunkErrorCount' = 0
    /\ selectedCameras' = cameras
    /\ isSelectionComplete' = complete
    /\ UNCHANGED closureCameras
    /\ IF ~ShouldConnect(cameras, complete)
       THEN /\ connectionStatus' = "disconnected"
            /\ sockets' = CloseSocket(sockets, wsRef)
            /\ wsRef' = 0
            /\ cleanupTimer' = FALSE
            /\ UNCHANGED <<msReadyState, wsUrl>>
       ELSE \* setupMediaSource: a new MediaSource, not open yet
            /\ msReadyState' = "closed"
            /\ connectToWebSocket(sockets)
            /\ UNCHANGED cleanupTimer
    /\ appendEvent' = "none"
    /\ UNCHANGED <<bufferQueue, processingQueue, sbPresent, sinkOp, pollTimers,
                   retryTimers, updateEndTimers, arrived, lastAppended, resetPhase>>

NextClient ==
    \/ \E throws \in BOOLEAN : handleWebSocketMessage(throws)
    \/ \E throws \in BOOLEAN : PollTimerFires(throws)
    \/ \E throws \in BOOLEAN : RetryTimerFires(throws)
    \/ \E throws \in BOOLEAN : UpdateEndTimerFires(throws)
    \/ updateEndHandler
    \/ SourceBufferError
    \/ \E addThrows \in BOOLEAN : handleSourceOpen(addThrows)
    \/ \E videoError, stale \in BOOLEAN : cleanupSourceBuffer(videoError, stale)
    \/ EffectCleanup
    \/ \E k \in SocketIds : WsOnOpen(k)

\* The hook over changes of the selection and closes of the transport, while
\* the sink completes no operation and no timer fires.
NextClientSession ==
    \/ \E cameras \in Selections, complete \in BOOLEAN : MainEffect(cameras, complete)
    \/ EffectCleanup
    \/ \E k \in SocketIds : WsOnOpen(k)
    \/ \E k \in SocketIds, failed \in BOOLEAN : WsOnClose(k, failed)
    \/ \E throws \in BOOLEAN : handleWebSocketMessage(throws)
    \/ \E addThrows \in BOOLEAN : handleSourceOpen(addThrows)

-----------------------------------------------------------------------------
(* The server session: one connection of wss.on("connection").             *)

\* ffmpeg processes one session may spawn over a run.
MaxProcs == 2

\* createSequentialTranscoder closures one session may create over a run: as
\* many as can each start the processes of two camera groups.
MaxSeqs == MaxProcs \div 2

\* createTranscoder: const MAX_BUFFER_SIZE = 5 * 1024 * 1024
MAX_BUFFER_SIZE == 5 * 1024 * 1024

\* createSequentialTranscoder: const maxConcurrentCameras = 3
maxConcurrentCameras == 3

\* createTranscoder: the tiles of the xstack layout, 0_0|w0_0|w0+w1_0|0_h0|w0_h0|w0+w1_h0
GridTiles == 6

\* The number of ids in the cameraIds parameter of the connections of the run.
CameraCounts == {6}

\* cameraIds parameters that do not list 6 ids: absent, and 2 ids.
OtherIdsParams == {0, 2}

\* (params.get("cameraIds") || "1,2,3,4,5,6").split(",").slice(0, 6).length
\* for a parameter that lists k ids.
SliceLength(k) == IF k = 0 \/ k > 6 THEN 6 ELSE k

\* ws.bufferedAmount as the multiplexer sees it: empty, at the limit, over it.
BufferedLevels == {0, MAX_BUFFER_SIZE, MAX_BUFFER_SIZE + 1}

ProcIds == 1..MaxProcs
SeqIds == 1..MaxSeqs

\* What a stderr chunk contains: str matches the memory patterns, the RTSP
\* patterns, includes "error", includes "fatal", includes "warning".
Diagnostic(mem, rtsp, error, fatal, warning) ==
    [mem |-> mem, rtsp |-> rtsp, error |-> error, fatal |-> fatal, warning |-> warning]

\* The chunks of the run: one per class alone, and the overlaps that decide
\* which branch of the handler wins.
Diagnostics ==
    {Diagnostic(TRUE, FALSE, FALSE, FALSE, FALSE),   \* "Cannot allocate memory"
     Diagnostic(TRUE, TRUE, TRUE, FALSE, FALSE),     \* memory and RTSP patterns together
     Diagnostic(FALSE, TRUE, FALSE, FALSE, FALSE),   \* "Connection refused"
     Diagnostic(FALSE, TRUE, TRUE, TRUE, TRUE),      \* "rtsp: fatal error", with a warning
     Diagnostic(FALSE, FALSE, TRUE, FALSE, FALSE),   \* "error"
     Diagnostic(FALSE, FALSE, TRUE, TRUE, FALSE),    \* "fatal error"
     Diagnostic(FALSE, FALSE, TRUE, FALSE, TRUE),    \* "error" and "warning"
     Diagnostic(FALSE, FALSE, FALSE, FALSE, TRUE),   \* "warning"
     Diagnostic(FALSE, FALSE, FALSE, TRUE, FALSE),   \* "fatal" without "error"
     Diagnostic(FALSE, FALSE, FALSE, FALSE, FALSE)}  \* progress output

\* Client control messages: request_init without and with a codecType, the
\* mode switch, the ping of the documented protocol, and anything else
\* (unknown type, or not JSON).
Messages == {"request_init", "request_init_codec", "switch_to_memory_optimized",
             "ping", "other"}

\* st: "unborn", "running", "exited" (exit emitted), "closed" (close emitted);
\* signals: termination signals sent to it by kill() (2 stands for two or
\* more; ffmpeg.killed is signals > 0); cleanedUp: the closure's flag;
\* sending: a ws.send whose callback may still report an error; n: the number
\* of camera ids it was started with.
NoProc == [st |-> "unborn", signals |-> 0, cleanedUp |-> FALSE, sending |-> FALSE,
           n |-> 0]

\* ffmpeg.killed
Killed(proc) == proc.signals > 0

\* made: the closure exists (its 15 s timer is then always pending);
\* idx: currentGroupIndex; cur: currentTranscoder (0: null).
NoSeq == [made |-> FALSE, idx |-> 0, cur |-> 0]

NoTranscoder == [kind |-> "none", id |-> 0]

ServerState ==
    [ws |-> wsReadyState, code |-> closeCode,
     out |-> <<>>, n |-> nCameras, memopt |-> useMemoryOptimization,
     tr |-> transcoder, alive |-> isAlive, ping |-> pingState, hb |-> heartbeatOn, init |-> isInitialized, mem |-> memoryErrorDetected,
     closed |-> connectionClosed, procs |-> procs, seqs |-> seqs,
     reg |-> activeTranscoders, fatal |-> fatalDetected, overflow |-> FALSE,
     stopping |-> FALSE]

ServerCommit(s) ==
    \E t \in {s} :
        /\ serverPhase # "exited"
        /\ serverPhase' = IF t.stopping THEN "stopping" ELSE serverPhase
        /\ ~t.overflow
        /\ wsReadyState' = t.ws
        /\ closeCode' = t.code
        /\ outbox' = t.out
        /\ transcoder' = t.tr
        /\ isAlive' = t.alive
        /\ pingState' = t.ping
        /\ heartbeatOn' = t.hb
        /\ isInitialized' = t.init
        /\ memoryErrorDetected' = t.mem
        /\ connectionClosed' = t.closed
        /\ procs' = t.procs
        /\ seqs' = t.seqs
        /\ activeTranscoders' = t.reg
        /\ fatalDetected' = t.fatal
        /\ UNCHANGED <<cameraIdsParam, nCameras, useMemoryOptimization>>

Born(P) == {p \in ProcIds : P[p].st # "unborn"}

\* wsClient.send(JSON.stringify({type, source, ...})) / wsClient.send(data)
SendMsg(s, m) == [s EXCEPT !.out = Append(@, m)]

\* ws.close(code): takes effect on an open connection only.
WsClose(s, code) ==
    IF s.ws = "OPEN" THEN [s EXCEPT !.ws = "CLOSING", !.code = code] ELSE s

\* ChildProcess.kill(): the signal is sent, and killed set, while the process
\* has not exited; afterwards the call does nothing.
Kill(s, p) ==
    IF s.procs[p].st = "running"
    THEN [s EXCEPT !.procs[p].signals = IF @ < 2 THEN @ + 1 ELSE @]
    ELSE s

\* cleanup of createTranscoder.
transcoderCleanupNoKill(s, p) ==
    IF s.procs[p].cleanedUp
    THEN s
    ELSE [s EXCEPT !.procs[p].cleanedUp = TRUE, !.procs[p].sending = FALSE,
                   !.reg = 0]
transcoderCleanup(s, p) ==
    IF s.procs[p].cleanedUp
    THEN s
    ELSE LET s1 == [s EXCEPT !.procs[p].cleanedUp = TRUE, !.procs[p].sending = FALSE]
             s2 == IF ~Killed(s1.procs[p]) THEN Kill(s1, p) ELSE s1
         IN [s2 EXCEPT !.reg = 0]

\* transcoder.kill(): both a ChildProcess and the object returned by
\* createSequentialTranscoder have a kill function, so kill() is called
\* without arguments on either.
KillTranscoder(s) ==
    CASE s.tr.kind = "proc" -> Kill(s, s.tr.id)
      [] s.tr.kind = "seq" ->
            LET c == s.seqs[s.tr.id].cur
            IN IF c # 0 /\ ~Killed(s.procs[c]) THEN Kill(s, c) ELSE s
      [] OTHER -> s

\* cleanup of the connection handler.
connectionCleanup(s) ==
    IF s.closed
    THEN s
    ELSE LET s1 == KillTranscoder([s EXCEPT !.closed = TRUE, !.hb = FALSE])
         IN [s1 EXCEPT !.reg = 0]

NextProcId(s) == Cardinality(Born(s.procs)) + 1

NextSeqId(s) == Cardinality({q \in SeqIds : s.seqs[q].made}) + 1

\* createTranscoder(cameraIds, wsClient, codecType) with n camera ids: spawns
\* ffmpeg, installs the listeners, registers the process.
createTranscoder(s, n) ==
    LET p == NextProcId(s)
    IN IF p > MaxProcs
       THEN [s EXCEPT !.overflow = TRUE]
       ELSE [s EXCEPT !.procs[p] = [NoProc EXCEPT !.st = "running", !.n = n],
                      !.reg = p]

\* cameraGroups.length and cameraGroups[g].length for n camera ids.
NumGroups(n) == (n + maxConcurrentCameras - 1) \div maxConcurrentCameras

GroupSize(n, g) ==
    IF (g + 1) * maxConcurrentCameras <= n
    THEN maxConcurrentCameras
    ELSE n - g * maxConcurrentCameras

\* startNextGroup of closure q (its setTimeout is the closure's pending timer).
startNextGroup(s, q) ==
    LET i == IF s.seqs[q].idx >= NumGroups(s.n) THEN 0 ELSE s.seqs[q].idx
        p == NextProcId(s)
        s1 == createTranscoder(s, GroupSize(s.n, i))
    IN [s1 EXCEPT !.seqs[q].idx = i,
                  !.seqs[q].cur = IF s1.overflow THEN @ ELSE p]

\* createSequentialTranscoder; the caller stores the returned object.
createSequentialTranscoder(s) ==
    LET q == NextSeqId(s)
    IN IF q > MaxSeqs
       THEN [s EXCEPT !.overflow = TRUE]
       ELSE [startNextGroup([s EXCEPT !.seqs[q] = [made |-> TRUE, idx |-> 0, cur |-> 0]], q)
                EXCEPT !.tr = [kind |-> "seq", id |-> q]]

\* startTranscoder (spawn reports its failures through the error event, so
\* the catch branch is not taken).
startTranscoder(s) ==
    IF s.closed \/ s.ws # "OPEN"
    THEN s
    ELSE IF s.memopt \/ s.mem
         THEN createSequentialTranscoder(s)
         ELSE LET p == NextProcId(s)
              IN [createTranscoder(s, s.n) EXCEPT !.tr = [kind |-> "proc", id |-> p]]

\* ws.on("message"): codecType is a const, so the assignment of a request_init
\* that carries a codecType throws and the catch swallows the message.
onMessageUnknownRejected(s, m) ==
    CASE m = "request_init" /\ ~s.init -> [startTranscoder(s) EXCEPT !.init = TRUE]
      [] m = "request_init_codec" /\ ~s.init -> s
      [] m = "switch_to_memory_optimized" /\ s.init ->
            createSequentialTranscoder(KillTranscoder([s EXCEPT !.mem = TRUE]))
      [] m = "other" -> WsClose(s, 1008)
      [] OTHER -> s
onMessageNoInitCheck(s, m) ==
    CASE m = "request_init" -> [startTranscoder(s) EXCEPT !.init = TRUE]
      [] m = "request_init_codec" /\ ~s.init -> s
      [] m = "switch_to_memory_optimized" /\ s.init ->
            createSequentialTranscoder(KillTranscoder([s EXCEPT !.mem = TRUE]))
      [] OTHER -> s
onMessage(s, m) ==
    CASE m = "request_init" /\ ~s.init -> [startTranscoder(s) EXCEPT !.init = TRUE]
      [] m = "request_init_codec" /\ ~s.init -> s
      [] m = "switch_to_memory_optimized" /\ s.init ->
            createSequentialTranscoder(KillTranscoder([s EXCEPT !.mem = TRUE]))
      [] OTHER -> s

\* The 15 s timer of startNextGroup in closure q.
rotationTimer(s, q) ==
    LET c == s.seqs[q].cur
        s1 == IF c # 0 /\ ~Killed(s.procs[c]) THEN Kill(s, c) ELSE s
    IN startNextGroup([s1 EXCEPT !.seqs[q].idx = @ + 1], q)

\* The callback of heartbeatInterval.
\* isAlive = false; if (ws.readyState === WebSocket.OPEN) ws.ping();
SendPing(s) ==
    [s EXCEPT !.alive = FALSE,
              !.ping = IF s.ws = "OPEN" THEN "pending" ELSE "unsent"]

heartbeatTickNoCleanup(s) ==
    IF s.closed
    THEN [s EXCEPT !.hb = FALSE]
    ELSE IF ~s.alive
         THEN WsClose(s, 4000)
         ELSE SendPing(s)
heartbeatTickClosesFirst(s) ==
    IF s.closed
    THEN [s EXCEPT !.hb = FALSE]
    ELSE IF ~s.alive \/ s.ping = "none"
         THEN WsClose(connectionCleanup(s), 4000)
         ELSE SendPing(s)
heartbeatTick(s) ==
    IF s.closed
    THEN [s EXCEPT !.hb = FALSE]
    ELSE IF ~s.alive
         THEN WsClose(connectionCleanup(s), 4000)
         ELSE SendPing(s)

\* The test of onData in front of wsClient.send.
ShouldForwardMutant(state, amount) == state = "OPEN" /\ ~(amount >= MAX_BUFFER_SIZE)
ShouldForward(state, amount) == state = "OPEN" /\ ~(amount > MAX_BUFFER_SIZE)

\* onData of process p, with ws.bufferedAmount = buffered.
onData(s, p, buffered) ==
    IF ShouldForward(s.ws, buffered)
    THEN [SendMsg(s, "binary") EXCEPT !.procs[p].sending = TRUE]
    ELSE s

\* The fatal branches of the stderr handler: notify an open client, close
\* with 1011, clean up.
FatalDiagnosticNoClose(s, p, source) ==
    LET s1 == IF s.ws = "OPEN" THEN SendMsg(s, source) ELSE s
    IN [transcoderCleanup(s1, p) EXCEPT !.fatal = TRUE]
FatalDiagnostic(s, p, source) ==
    LET s1 == IF s.ws = "OPEN" THEN WsClose(SendMsg(s, source), 1011) ELSE s
    IN [transcoderCleanup(s1, p) EXCEPT !.fatal = TRUE]

\* ffmpeg.stderr.on("data") of process p for a chunk d.
stderrDataReportsEveryClass(s, p, d) ==
    IF d.mem THEN FatalDiagnostic(s, p, "memory")
    ELSE IF d.rtsp THEN FatalDiagnostic(s, p, "rtsp")
    ELSE LET s1 == IF d.error /\ s.ws = "OPEN" THEN SendMsg(s, "ffmpeg-stderr") ELSE s
             s2 == IF d.error /\ d.fatal THEN WsClose(transcoderCleanup(s1, p), 1011) ELSE s1
         IN IF d.warning /\ s2.ws = "OPEN" THEN SendMsg(s2, "warning") ELSE s2
stderrDataAlwaysFatal(s, p, d) ==
    IF d.mem THEN FatalDiagnostic(s, p, "memory")
    ELSE IF d.rtsp THEN FatalDiagnostic(s, p, "rtsp")
    ELSE IF d.error
         THEN LET s1 == IF s.ws = "OPEN" THEN SendMsg(s, "ffmpeg-stderr") ELSE s
              IN WsClose(transcoderCleanup(s1, p), 1011)
    ELSE IF d.warning
         THEN IF s.ws = "OPEN" THEN SendMsg(s, "warning") ELSE s
    ELSE s
stderrData(s, p, d) ==
    IF d.mem THEN FatalDiagnostic(s, p, "memory")
    ELSE IF d.rtsp THEN FatalDiagnostic(s, p, "rtsp")
    ELSE IF d.error
         THEN LET s1 == IF s.ws = "OPEN" THEN SendMsg(s, "ffmpeg-stderr") ELSE s
              IN IF d.fatal THEN WsClose(transcoderCleanup(s1, p), 1011) ELSE s1
    ELSE IF d.warning
         THEN IF s.ws = "OPEN" THEN SendMsg(s, "warning") ELSE s
    ELSE s

\* ffmpeg.on("exit") of process p.
onExitNoNotice(s, p) ==
    LET s1 == [s EXCEPT !.procs[p].st = "exited"]
    IN IF s1.ws = "OPEN" /\ ~Killed(s1.procs[p])
       THEN WsClose(SendMsg(s1, "ffmpeg-exit"), 1011)
       ELSE s1
onExit(s, p) ==
    LET s1 == [s EXCEPT !.procs[p].st = "exited"]
    IN IF s1.ws = "OPEN" THEN WsClose(SendMsg(s1, "ffmpeg-exit"), 1011) ELSE s1

\* ffmpeg.on("error") of process p: the spawn failed; no exit event follows.
onError(s, p) ==
    LET s1 == transcoderCleanup([s EXCEPT !.procs[p].st = "exited"], p)
    IN IF s1.ws = "OPEN" THEN WsClose(SendMsg(s1, "ffmpeg"), 1011) ELSE s1

\* The close / error listeners that every createTranscoder call added to the
\* connection, in the order of the calls.
RECURSIVE TranscoderListeners(_, _)
TranscoderListeners(s, k) ==
    IF k = 0
    THEN s
    ELSE LET s1 == TranscoderListeners(s, k - 1)
         IN IF s1.procs[k].st # "unborn" THEN transcoderCleanup(s1, k) ELSE s1

-----------------------------------------------------------------------------
(* Server actions: one per event.                                          *)

ServerInitWith(k, memopt) ==
    /\ wsReadyState = "OPEN"
    /\ closeCode = 0
    /\ outbox = <<>>
    /\ cameraIdsParam = k
    /\ nCameras = SliceLength(k)
    /\ useMemoryOptimization = memopt
    /\ transcoder = NoTranscoder
    /\ isAlive = TRUE
    /\ pingState = "none"
    /\ heartbeatOn = TRUE
    /\ initTimer = TRUE
    /\ isInitialized = FALSE
    /\ memoryErrorDetected = FALSE
    /\ connectionClosed = FALSE
    /\ procs = [p \in ProcIds |-> NoProc]
    /\ seqs = [q \in SeqIds |-> NoSeq]
    /\ activeTranscoders = 0
    /\ fatalDetected = FALSE
    /\ serverPhase = "up"

ServerInit == \E k \in CameraCounts, memopt \in BOOLEAN : ServerInitWith(k, memopt)

\* The server half while the client half is being checked.
ServerIdle == ServerInitWith(6, FALSE)

\* A control message arrives (also while the closing handshake is under way).
MessageReceived(m) ==
    /\ UNCHANGED <<clientVars, proxyVars, muxVars>>
    /\ wsReadyState \in {"OPEN", "CLOSING"}
    /\ ServerCommit(onMessage(ServerState, m))
    /\ UNCHANGED initTimer

\* The 100 ms timer set at the end of the connection handler.
InitTimerFires ==
    /\ UNCHANGED <<clientVars, proxyVars, muxVars>>
    /\ initTimer
    /\ initTimer' = FALSE
    /\ ServerCommit(IF ~connectionClosed /\ wsReadyState = "OPEN"
                    THEN [startTranscoder(ServerState) EXCEPT !.init = TRUE]
                    ELSE ServerState)

RotationTimerFires(q) ==
    /\ UNCHANGED <<clientVars, proxyVars, muxVars>>
    /\ seqs[q].made
    /\ ServerCommit(rotationTimer(ServerState, q))
    /\ UNCHANGED initTimer

HeartbeatTimerFires ==
    /\ UNCHANGED <<clientVars, proxyVars, muxVars>>
    /\ heartbeatOn
    /\ ServerCommit(heartbeatTick(ServerState))
    /\ UNCHANGED initTimer

\* ws.on("pong", heartbeat): the peer answers the ping of the last tick.
PongReceived ==
    /\ UNCHANGED <<clientVars, proxyVars, muxVars>>
    /\ ~isAlive
    /\ wsReadyState \in {"OPEN", "CLOSING"}
    /\ ServerCommit([ServerState EXCEPT !.alive = TRUE, !.ping = "answered"])
    /\ UNCHANGED initTimer

\* ffmpeg writes a chunk to stdout while onData is attached; buffered is
\* ws.bufferedAmount at that moment.
StdoutData(p, buffered) ==
    /\ UNCHANGED <<clientVars, proxyVars, muxVars>>
    /\ procs[p].st = "running" /\ ~procs[p].cleanedUp
    /\ ServerCommit(onData(ServerState, p, buffered))
    /\ UNCHANGED initTimer

\* The callback of wsClient.send reports an error.
SendFails(p) ==
    /\ UNCHANGED <<clientVars, proxyVars, muxVars>>
    /\ procs[p].sending
    /\ ServerCommit(transcoderCleanup(ServerState, p))
    /\ UNCHANGED initTimer

StderrData(p, d) ==
    /\ UNCHANGED <<clientVars, proxyVars, muxVars>>
    /\ procs[p].st = "running"
    /\ ServerCommit(stderrData(ServerState, p, d))
    /\ UNCHANGED initTimer

\* The process ends, on its own or after a signal.
ProcessExit(p) ==
    /\ UNCHANGED <<clientVars, proxyVars, muxVars>>
    /\ procs[p].st = "running"
    /\ ServerCommit(onExit(ServerState, p))
    /\ UNCHANGED initTimer

\* ffmpeg.on("close"): the stdio streams of an ended process are closed.
ProcessClose(p) ==
    /\ UNCHANGED <<clientVars, proxyVars, muxVars>>
    /\ procs[p].st = "exited"
    /\ ServerCommit(transcoderCleanup([ServerState EXCEPT !.procs[p].st = "closed"], p))
    /\ UNCHANGED initTimer

ProcessError(p) ==
    /\ UNCHANGED <<clientVars, proxyVars, muxVars>>
    /\ procs[p].st = "running" /\ ~Killed(procs[p]) /\ ~procs[p].cleanedUp
    /\ ~procs[p].sending
    /\ ServerCommit(onError(ServerState, p))
    /\ UNCHANGED initTimer

\* The peer starts closing (its close frame arrives, or the socket ends): the
\* ws library moves to CLOSING and no listener of the handler runs yet.
PeerClosing ==
    /\ UNCHANGED <<clientVars, proxyVars, muxVars>>
    /\ wsReadyState = "OPEN"
    /\ ServerCommit([ServerState EXCEPT !.ws = "CLOSING"])
    /\ UNCHANGED initTimer

\* The close event: the handler's listener, then those of the transcoders.
WsCloseEvent ==
    /\ UNCHANGED <<clientVars, proxyVars, muxVars>>
    /\ wsReadyState # "CLOSED"
    /\ ServerCommit(TranscoderListeners(
            connectionCleanup([ServerState EXCEPT !.ws = "CLOSED"]), MaxProcs))
    /\ UNCHANGED initTimer

\* The error event (a frame the receiver rejects): the ws library has moved
\* to CLOSING when the listeners run, so none of them can send.
WsErrorEvent ==
    /\ UNCHANGED <<clientVars, proxyVars, muxVars>>
    /\ wsReadyState = "OPEN"
    /\ ServerCommit(TranscoderListeners(
            connectionCleanup([ServerState EXCEPT !.ws = "CLOSING"]), MaxProcs))
    /\ UNCHANGED initTimer

\* shutdown(), the SIGINT / SIGTERM handler: close every open client with
\* 1001, signal every registered transcoder (a ChildProcess has a kill
\* function, so the first branch is the one taken), arm the exit timer.
shutdown(s) ==
    LET s1 == WsClose(s, 1001)
        s2 == IF s1.reg # 0 THEN Kill(s1, s1.reg) ELSE s1
    IN [s2 EXCEPT !.stopping = TRUE]

Shutdown ==
    /\ UNCHANGED <<clientVars, proxyVars, muxVars>>
    /\ ServerCommit(shutdown(ServerState))
    /\ UNCHANGED initTimer

\* The exit timer's chain wss.close -> server.close -> process.exit(0): the
\* callback of server.close runs once every connection of the HTTP server
\* has ended.
ServerExit ==
    /\ serverPhase = "stopping"
    /\ wsReadyState = "CLOSED"
    /\ serverPhase' = "exited"
    /\ UNCHANGED <<clientVars, proxyVars, muxVars, wsReadyState, closeCode, outbox, cameraIdsParam,
                   nCameras, useMemoryOptimization, transcoder, isAlive, pingState,
                   heartbeatOn, initTimer, isInitialized, memoryErrorDetected,
                   connectionClosed, procs, seqs, activeTranscoders, fatalDetected>>

NextServer ==
    \/ \E m \in Messages : MessageReceived(m)
    \/ InitTimerFires
    \/ \E q \in SeqIds : RotationTimerFires(q)
    \/ HeartbeatTimerFires
    \/ PongReceived
    \/ \E p \in ProcIds, buffered \in BufferedLevels : StdoutData(p, buffered)
    \/ \E p \in ProcIds : SendFails(p)
    \/ \E p \in ProcIds, d \in Diagnostics : StderrData(p, d)
    \/ \E p \in ProcIds : ProcessExit(p)
    \/ \E p \in ProcIds : ProcessClose(p)
    \/ \E p \in ProcIds : ProcessError(p)
    \/ PeerClosing
    \/ WsCloseEvent
    \/ WsErrorEvent

-----------------------------------------------------------------------------
(* The standalone proxy, src/proxy/index.js: its connection handler.       *)

\* Connections the proxy accepts over a run.
MaxConns == 3

ConnIds == 1..MaxConns

\* cameraIds parameters of the run: absent (0), and 5, 6 and 7 ids.
ProxyIdsParams == {0, 5, 6, 7}

\* config.camera.maxCameras: the config object defines no such key, so the
\* expression is undefined.
maxCameras == [defined |-> FALSE, value |-> 0]

\* a !== b for a number a and a value b that may be undefined.
StrictNotEqual(a, b) == ~b.defined \/ a # b.value

\* st: "none" (not connected yet), "OPEN", "CLOSING", "CLOSED"; ids: the
\* number of ids in the cameraIds parameter (0: absent); code: the code of
\* the handler's ws.close (0: none); listening: the message and close
\* listeners were added; init: isInitialized; spawned, kills: ffmpeg
\* processes started for the connection and kill() calls made on them.
NoConn == [st |-> "none", ids |-> 0, code |-> 0, listening |-> FALSE,
           init |-> FALSE, spawned |-> 0, kills |-> 0]

\* wss.on("connection") for a cameraIds parameter that lists k ids.
proxyConnection(k) ==
    LET c == [NoConn EXCEPT !.st = "OPEN", !.ids = k]
    IN IF k = 0
       THEN [c EXCEPT !.st = "CLOSING", !.code = 1008]
       ELSE IF StrictNotEqual(k, maxCameras)
            THEN [c EXCEPT !.st = "CLOSING", !.code = 1008]
            ELSE [c EXCEPT !.listening = TRUE]

\* startTranscoder of the proxy's connection handler.
proxyStartTranscoder(c) ==
    [c EXCEPT !.kills = IF c.spawned > 0 THEN @ + 1 ELSE @,
              !.spawned = @ + 1]

\* ws.on("message") of the proxy, when it was added.
proxyOnMessage(c, m) ==
    IF c.listening /\ m \in {"request_init", "request_init_codec"} /\ ~c.init
    THEN [proxyStartTranscoder(c) EXCEPT !.init = TRUE]
    ELSE c

\* ws.on("close") of the proxy, when it was added.
proxyOnClose(c) ==
    LET c1 == [c EXCEPT !.st = "CLOSED"]
    IN IF c.listening /\ c.spawned > 0 THEN [c1 EXCEPT !.kills = @ + 1] ELSE c1

ProxyInit == conns = [c \in ConnIds |-> NoConn]

ProxyConnection(c, k) ==
    /\ UNCHANGED <<clientVars, serverVars, muxVars>>
    /\ conns[c].st = "none"
    /\ conns' = [conns EXCEPT ![c] = proxyConnection(k)]

\* A message arrives on connection c (the handshake of a closing connection
\* still delivers it).
ProxyMessageReceived(c, m) ==
    /\ UNCHANGED <<clientVars, serverVars, muxVars>>
    /\ conns[c].st \in {"OPEN", "CLOSING"}
    /\ conns' = [conns EXCEPT ![c] = proxyOnMessage(@, m)]

ProxyCloseEvent(c) ==
    /\ UNCHANGED <<clientVars, serverVars, muxVars>>
    /\ conns[c].st \in {"OPEN", "CLOSING"}
    /\ conns' = [conns EXCEPT ![c] = proxyOnClose(@)]

NextProxy ==
    \/ \E c \in ConnIds, k \in ProxyIdsParams : ProxyConnection(c, k)
    \/ \E c \in ConnIds, m \in Messages : ProxyMessageReceived(c, m)
    \/ \E c \in ConnIds : ProxyCloseEvent(c)

-----------------------------------------------------------------------------
(* The mux.js variant of the client hook, src/unnamed/part_001: the path   *)
(* of a binary frame to the SourceBuffer.                                  *)

MuxState ==
    [q |-> muxQueue, processing |-> muxProcessing, updating |-> muxUpdating,
     last |-> muxLastCall]

\* sourceBufferRef.current.appendBuffer(f): the call is made; it starts an
\* update unless it throws.
muxAppendBuffer(m, f, throws) ==
    [m EXCEPT !.last = f, !.updating = ~throws]

\* processBuffer.
muxProcessBuffer(m, throws) ==
    IF ~muxActive \/ ~muxOpen \/ m.updating \/ m.q = <<>>
    THEN m
    ELSE LET m1 == [m EXCEPT !.processing = TRUE, !.q = Tail(@)]
             m2 == muxAppendBuffer(m1, Head(m.q), throws)
         IN IF throws THEN [m2 EXCEPT !.processing = FALSE] ELSE m2

\* ws.onmessage for the binary frame f; throws1, throws2: whether the
\* handler's own appendBuffer call and the one of processBuffer throw.
muxOnMessage(m, f, throws1, throws2) ==
    LET m1 == IF muxOpen
              THEN IF ~m.updating
                   THEN LET a == muxAppendBuffer(m, f, throws1)
                        IN IF throws1 THEN [a EXCEPT !.q = Append(@, f)] ELSE a
                   ELSE [m EXCEPT !.q = Append(@, f)]
              ELSE [m EXCEPT !.q = Append(@, f)]
    IN IF ~m1.processing THEN muxProcessBuffer(m1, throws2) ELSE m1

MuxCommit(m) ==
    /\ muxQueue' = m.q
    /\ muxProcessing' = m.processing
    /\ muxUpdating' = m.updating
    /\ muxLastCall' = m.last

\* The state when the socket of the variant opens: the variant connects from
\* handleSourceOpen, after addSourceBuffer.
MuxInit ==
    /\ muxQueue = <<>>
    /\ muxProcessing = FALSE
    /\ muxUpdating = FALSE
    /\ muxOpen = TRUE
    /\ muxActive = TRUE
    /\ muxArrived = 0
    /\ muxLastCall = 0

MuxOnMessage(throws1, throws2) ==
    /\ UNCHANGED <<clientVars, serverVars, proxyVars>>
    /\ muxActive
    /\ muxArrived < MaxFrags
    /\ muxArrived' = muxArrived + 1
    /\ MuxCommit(muxOnMessage(MuxState, muxArrived + 1, throws1, throws2))
    /\ UNCHANGED <<muxOpen, muxActive>>

\* onUpdateEnd: the sink has finished the append.
MuxOnUpdateEnd(throws) ==
    /\ UNCHANGED <<clientVars, serverVars, proxyVars>>
    /\ muxUpdating
    /\ MuxCommit(muxProcessBuffer(
            [MuxState EXCEPT !.updating = FALSE, !.processing = FALSE], throws))
    /\ UNCHANGED <<muxOpen, muxActive, muxArrived>>

\* The MediaSource leaves "open" (the user agent ends the stream on a decode
\* error); nothing in the hook opens it again.
MuxMediaSourceEnds ==
    /\ UNCHANGED <<clientVars, serverVars, proxyVars>>
    /\ muxOpen /\ ~muxUpdating
    /\ muxOpen' = FALSE
    /\ UNCHANGED <<muxQueue, muxProcessing, muxUpdating, muxActive, muxArrived,
                   muxLastCall>>

\* The cleanup of the variant's effect: the listener is removed, the stream
\* ended, the queue emptied.
MuxEffectCleanup ==
    /\ UNCHANGED <<clientVars, serverVars, proxyVars>>
    /\ muxActive
    /\ muxActive' = FALSE
    /\ muxOpen' = FALSE
    /\ muxUpdating' = FALSE
    /\ muxQueue' = <<>>
    /\ UNCHANGED <<muxProcessing, muxArrived, muxLastCall>>

NextMux ==
    \/ \E throws1, throws2 \in BOOLEAN : MuxOnMessage(throws1, throws2)
    \/ \E throws \in BOOLEAN : MuxOnUpdateEnd(throws)
    \/ MuxMediaSourceEnds
    \/ MuxEffectCleanup

-----------------------------------------------------------------------------
(* The specifications.                                                     *)

InitClient == ClientInit /\ ServerIdle /\ ProxyInit /\ MuxInit

\* The hook mounted with any of the selections of the run.
InitClientSession ==
    /\ \E cameras \in Selections, complete \in BOOLEAN : ClientInitWith(cameras, complete)
    /\ ServerIdle
    /\ ProxyInit
    /\ MuxInit

SpecClient == InitClient /\ [][NextClient]_vars

\* What the platform guarantees of the ingest buffer's events: the sink ends
\* every append and remove with updateend, and a pending timer fires; the
\* timers are 20 and 50 ms against the 30 s of the maintenance interval, so
\* a pending timer also fires at a moment when the sink is ready.
ClientFairness ==
    /\ WF_vars(updateEndHandler)
    /\ WF_vars(\E throws \in BOOLEAN : PollTimerFires(throws))
    /\ WF_vars(\E throws \in BOOLEAN : RetryTimerFires(throws))
    /\ WF_vars(\E throws \in BOOLEAN : UpdateEndTimerFires(throws))
    /\ SF_vars(SinkReady(ClientState) /\ \E throws \in BOOLEAN : PollTimerFires(throws))
    /\ SF_vars(SinkReady(ClientState) /\ \E throws \in BOOLEAN : RetryTimerFires(throws))
    /\ SF_vars(SinkReady(ClientState) /\ \E throws \in BOOLEAN : UpdateEndTimerFires(throws))

SpecClientFair == SpecClient /\ ClientFairness

SpecClientSession == InitClientSession /\ [][NextClientSession]_vars

InitServer == ClientInit /\ ServerInit /\ ProxyInit /\ MuxInit

SpecServer == InitServer /\ [][NextServer]_vars

NextServerShutdown ==
    \/ NextServer
    \/ Shutdown
    \/ ServerExit

SpecServerShutdown == InitServer /\ [][NextServerShutdown]_vars

\* What the platform guarantees of the events: a process that was sent a
\* termination signal exits, and a connection that is closing gets its close
\* event (the ws library ends the handshake after its close timeout).
ServerFairness ==
    /\ WF_vars(\E p \in ProcIds : Killed(procs[p]) /\ ProcessExit(p))
    /\ WF_vars(wsReadyState = "CLOSING" /\ WsCloseEvent)

SpecServerFair == SpecServer /\ ServerFairness

\* The server session for connections whose cameraIds parameter is absent or
\* lists another number of ids than 6.
InitServerOtherIds ==
    /\ ClientInit
    /\ \E k \in OtherIdsParams, memopt \in BOOLEAN : ServerInitWith(k, memopt)
    /\ ProxyInit
    /\ MuxInit

SpecServerOtherIds == InitServerOtherIds /\ [][NextServer]_vars

InitProxy == ClientInit /\ ServerIdle /\ ProxyInit /\ MuxInit

SpecMux == InitClient /\ [][NextMux]_vars

SpecProxy == InitProxy /\ [][NextProxy]_vars

-----------------------------------------------------------------------------
(* Claims about the client ingest buffer, checked under SpecClient.        *)

\* A callback of this step called appendBuffer.
AppendCalled == appendEvent' # "none"

\* C2: the fragments passed to appendBuffer are a subsequence of the arrival
\* sequence in the same relative order: every call passes a fragment that has
\* arrived and that arrived later than every fragment passed before it (none
\* is passed twice, none is passed out of order).
C2_AppendsInArrivalOrder ==
    [][AppendCalled => lastAppended' > lastAppended /\ lastAppended' \in 1..arrived']_vars

\* A later fragment is being appended while others wait and a retry is pending.
C2_Witness ==
    appendEvent = "ok" /\ lastAppended >= 3 /\ bufferQueue # <<>> /\ retryTimers > 0

\* C3: appendBuffer is never called while the sink is busy with an append or
\* a remove whose updateend has not fired.
C3_SingleWriter == [][AppendCalled => sinkOp = "idle"]_vars

\* An append is outstanding while all three timer chains are pending.
C3_Witness ==
    sinkOp = "append" /\ pollTimers > 0 /\ retryTimers > 0 /\ updateEndTimers > 0

\* C4: the ingest queue never holds more than the configured bound of 10.
C4_QueueWithinLimit == Len(bufferQueue) <= QueueLimit

\* The fragment whose append fails at this step, with the budget not used up.
FailedUnderLimit == appendEvent' = "threw" /\ chunkErrorCount' # 0

\* The append that fails at this step is the maxChunkErrors-th in a row.
BudgetExhausted == appendEvent' = "threw" /\ chunkErrorCount = maxChunkErrors - 1

\* C5: at the maxChunkErrors-th consecutive failure the queue is emptied, the
\* counter is 0 and processingQueue is false; that stays so until the next
\* fragment arrives, and that fragment, given an idle open sink, is passed to
\* appendBuffer by the arrival's own callback.
C5_ErrorBudget ==
    [][/\ BudgetExhausted => resetPhase' = "reset"
       /\ resetPhase' = "reset" =>
              bufferQueue' = <<>> /\ chunkErrorCount' = 0 /\ ~processingQueue'
       /\ (resetPhase = "reset" /\ arrived' # arrived /\ isActive /\ SinkReady(ClientState))
              => AppendCalled /\ lastAppended' = arrived']_vars

\* The fragment that arrived after the budget was exhausted is in the sink.
C5_Witness == resetPhase = "resumed" /\ appendEvent = "ok" /\ lastAppended = arrived

\* C6 as stated: a fragment whose append fails under the limit is kept at the
\* head of the queue for the retry.
C6_FailedFragmentKept ==
    [][FailedUnderLimit =>
           bufferQueue' # <<>> /\ Head(bufferQueue') = lastAppended']_vars

\* C6 amended: a fragment whose append fails under the limit is dropped (it is
\* not in the queue after the failure, which holds only fragments that arrived
\* after it) and a retry timer is pending: the retry takes the next queued
\* fragment.
C6_FailedFragmentSkipped ==
    [][FailedUnderLimit =>
           /\ \A i \in 1..Len(bufferQueue') : bufferQueue'[i] > lastAppended'
           /\ retryTimers' > 0]_vars

\* An append has failed under the limit with fragments still queued behind it.
C6_Witness ==
    appendEvent = "threw" /\ chunkErrorCount > 0 /\ chunkErrorCount < maxChunkErrors
    /\ bufferQueue # <<>> /\ retryTimers > 0

\* s is t without some of its first entries.
SuffixOf(s, t) == Len(s) <= Len(t) /\ s = SubSeq(t, Len(t) - Len(s) + 1, Len(t))

\* The fragments that have arrived, in the order of arrival.
Arrivals(n) == [i \in 1..n |-> i]

C30_TrimOnlyWhenIdle ==
    [][/\ \A videoError, stale \in BOOLEAN :
            (cleanupTimer /\ sinkOp' = "remove" /\ sinkOp # "remove"
                /\ cleanupSourceBuffer(videoError, stale))
                    => (sinkOp = "idle" /\ ~videoError)
       /\ (sinkOp' = "remove" /\ sinkOp # "remove") => sinkOp \notin {"append", "failing"}
       /\ AppendCalled => sinkOp # "remove"]_vars

\* A remove is outstanding while fragments wait and the append of the head
\* was put off.
C30_Witness ==
    sinkOp = "remove" /\ bufferQueue # <<>> /\ processingQueue /\ pollTimers > 0

\* C25: a failed append (appendBuffer throws, or the sink reports an error
\* for an append) never sets connectionStatus to "error" or "disconnected",
\* never closes the transport and never deactivates the hook, however many
\* appends have failed; a fragment that arrives in an event without a failure
\* is admitted (it is queued, or passed to appendBuffer at once; the fragment
\* without bytes may be dropped), and processing is never left switched on
\* with nothing pending that would resume it.
C25_AppendFailureNotFatal ==
    [][/\ (appendEvent' = "threw" \/ (sinkOp = "append" /\ sinkOp' = "failing"))
            => /\ connectionStatus' = connectionStatus
                    \/ connectionStatus' \notin {"error", "disconnected"}
               /\ sockets' = sockets /\ wsRef' = wsRef
               /\ isActive' = isActive
       /\ (arrived' # arrived /\ isActive /\ appendEvent' # "threw")
            => \/ arrived' \in Range(bufferQueue')
               \/ lastAppended' = arrived'
               \/ ByteLength(arrived') = 0
       /\ (isActive' /\ processingQueue')
            => \/ pollTimers' > 0 \/ retryTimers' > 0 \/ updateEndTimers' > 0
               \/ sinkOp' # "idle"]_vars

\* After the budget was exhausted and the queue cleared, a later fragment is
\* committed while the transport is open and the status is "connected".
C25_Witness ==
    /\ resetPhase = "resumed" /\ appendEvent = "ok" /\ lastAppended = arrived
    /\ connectionStatus = "connected" /\ wsRef # 0 /\ sockets[wsRef] = "OPEN"

\* C33: every accepted appendBuffer call leaves chunkErrorCount at 0, the
\* counter grows only in a callback in which appendBuffer threw, and then by
\* one, and between callbacks it is in 0 .. maxChunkErrors - 1.
C33_ErrorCounter ==
    [][/\ appendEvent' = "ok" => chunkErrorCount' = 0
       /\ chunkErrorCount' > chunkErrorCount
            => (appendEvent' = "threw" /\ chunkErrorCount' = chunkErrorCount + 1)
       /\ chunkErrorCount' \in 0..(maxChunkErrors - 1)]_vars

\* The counter stands at its highest value after a failed append, with
\* fragments waiting.
C33_Witness ==
    chunkErrorCount = maxChunkErrors - 1 /\ appendEvent = "threw" /\ bufferQueue # <<>>

\* Processing is switched on while nothing is pending that would go on with
\* it: fragments wait, the sink is open and idle, no timer is pending.
Wedged ==
    /\ isActive /\ bufferQueue # <<>> /\ processingQueue
    /\ sbPresent /\ msReadyState = "open" /\ sinkOp = "idle"
    /\ pollTimers = 0 /\ retryTimers = 0 /\ updateEndTimers = 0

C38_InitSegmentNotDiscarded ==
    [][/\ (arrived = 0 /\ arrived' = 1 /\ isActive)
            => \/ 1 \in Range(bufferQueue')
               \/ appendEvent' = "ok" /\ lastAppended' = 1
       /\ (1 \in Range(bufferQueue) /\ 1 \notin Range(bufferQueue'))
            => (appendEvent' = "ok" /\ lastAppended' = 1)]_vars

-----------------------------------------------------------------------------
(* Claims about the mux.js variant, checked under SpecMux.                 *)

\* C34: in the mux.js variant a fragment that arrives while the queue is not
\* empty is not passed to appendBuffer ahead of the queued ones, and the
\* appendBuffer calls are made in arrival order.
C34_MuxAppendsInOrder ==
    [][/\ muxLastCall' >= muxLastCall
       /\ (muxArrived' = muxArrived + 1 /\ muxQueue # <<>>)
            => muxLastCall' \in {muxLastCall, Head(muxQueue)}]_vars

-----------------------------------------------------------------------------
(* Claims about the client's transport, checked under SpecClientSession.   *)

CurrentOpen == wsRef # 0 /\ sockets[wsRef] = "OPEN"

\* C26: while the hook is mounted, connectionStatus is "connected" only if the
\* current session's transport is open and has delivered a binary fragment,
\* and it is "disconnected" or "error" only if that transport is not open.
C26_StatusDescribesTransport ==
    isActive =>
        /\ connectionStatus = "connected" => (CurrentOpen /\ initialSegmentReceived)
        /\ connectionStatus \in {"disconnected", "error"} => ~CurrentOpen

\* The sockets that are connecting or open.
Live(S) == {k \in SocketIds : S[k] \in {"CONNECTING", "OPEN"}}

\* C31: a socket is created only by a run of the main effect whose arguments
\* are a complete selection of exactly 6 cameras; and while the arguments of
\* the last run are anything else, no socket is connecting or open, wsRef is
\* null and the status is "disconnected".
C31_ConnectsOnlyWhenComplete ==
    [][/\ Created(sockets') # Created(sockets)
            => ShouldConnect(selectedCameras', isSelectionComplete')
       /\ ~ShouldConnect(selectedCameras', isSelectionComplete')
            => /\ Live(sockets') = {}
               /\ wsRef' = 0
               /\ connectionStatus' = "disconnected"]_vars

\* C39: every socket the hook creates is created with the URL of the camera
\* selection in force at that moment.
C39_UrlIsCurrentSelection ==
    [][\A k \in SocketIds :
            (sockets[k] = "none" /\ sockets'[k] # "none")
                => wsUrl'[k] = buildWebSocketUrl(selectedCameras')]_vars


-----------------------------------------------------------------------------
(* Claims about the server session, checked under SpecServer.              *)

\* The encoders of the session that are alive: started, not ended, and not
\* yet sent a termination signal.
AliveEncoders == {p \in ProcIds : procs[p].st = "running" /\ ~Killed(procs[p])}

\* C1: at every instant at most one ffmpeg process started for the session is
\* alive (started and not yet signalled to terminate).
C1_AtMostOneEncoderAlive == Cardinality(AliveEncoders) <= 1

\* C7: whatever teardown triggers fire and however they overlap, no encoder
\* process of the session is sent more than one termination signal.
C7_OneTerminationSignal == \A p \in ProcIds : procs[p].signals <= 1

\* C8: a chunk emitted by an encoder is sent to the client if and only if the
\* connection is OPEN and bufferedAmount is at most MAX_BUFFER_SIZE at that
\* moment, and binary data is sent in no other step: a chunk that was not
\* sent is kept nowhere and never sent later.
C8_ForwardIffOpenAndUnderLimit ==
    [][/\ wsReadyState # "OPEN" => "binary" \notin Range(outbox')
       /\ wsReadyState = "OPEN" =>
            \A p \in ProcIds, b \in BufferedLevels :
                StdoutData(p, b) =>
                    ((outbox' = <<"binary">>) <=> (b <= MAX_BUFFER_SIZE))
       /\ "binary" \in Range(outbox') =>
            \E p \in ProcIds, b \in BufferedLevels : StdoutData(p, b)]_vars

C8_Witness ==
    /\ wsReadyState = "OPEN"
    /\ outbox = <<"binary">>
    /\ \E p \in ProcIds : procs[p].st = "running" /\ procs[p].sending

\* Once the connection has left OPEN it never returns to it and nothing more
\* is sent to the client.
NothingSentAfterClose ==
    wsReadyState # "OPEN" => (outbox' = <<>> /\ wsReadyState' # "OPEN")

\* C9, as stated: a diagnostic chunk that matches an upstream-connectivity
\* pattern while the connection is open makes the server send exactly the
\* "rtsp" error, close with 1011 and signal the encoder, and nothing is sent
\* afterwards.
C9_RtspDiagnosticReported ==
    [][/\ \A p \in ProcIds, d \in Diagnostics :
            (wsReadyState = "OPEN" /\ d.rtsp /\ StderrData(p, d)) =>
                /\ outbox' = <<"rtsp">>
                /\ wsReadyState' = "CLOSING"
                /\ closeCode' = 1011
                /\ Killed(procs'[p])
       /\ NothingSentAfterClose]_vars

\* C9, amended: the same for a chunk that matches an upstream-connectivity
\* pattern and no out-of-memory pattern (the out-of-memory test comes first
\* and reports "memory" instead).
C9_RtspWithoutMemoryReported ==
    [][/\ \A p \in ProcIds, d \in Diagnostics :
            (wsReadyState = "OPEN" /\ d.rtsp /\ ~d.mem /\ StderrData(p, d)) =>
                /\ outbox' = <<"rtsp">>
                /\ wsReadyState' = "CLOSING"
                /\ closeCode' = 1011
                /\ Killed(procs'[p])
       /\ NothingSentAfterClose]_vars

C9_Witness ==
    /\ outbox = <<"rtsp">>
    /\ wsReadyState = "CLOSING"
    /\ closeCode = 1011
    /\ \E p \in ProcIds : procs[p].cleanedUp /\ procs[p].signals = 1

\* C10: once an out-of-memory or upstream-connectivity diagnostic has been
\* detected for the session, no further ffmpeg process is started for it.
C10_NoStartAfterFatal == [][fatalDetected => Born(procs') = Born(procs)]_vars

\* The stderr handler of a running process p only reports chunk d: at most
\* one message, an "ffmpeg-stderr" error or a warning, and the processes, the
\* connection and its close code are as before.
OnlyReported(p, d) ==
    LET s == stderrData(ServerState, p, d)
    IN /\ s.procs = procs
       /\ s.ws = wsReadyState
       /\ s.code = closeCode
       /\ s.reg = activeTranscoders
       /\ s.out \in {<<>>, <<"ffmpeg-stderr">>, <<"warning">>}

\* C11, as stated: a diagnostic chunk that matches neither the out-of-memory
\* nor the upstream-connectivity patterns is only reported; it never ends the
\* encoder process and never closes the connection.
C11_GenericDiagnosticOnlyReported ==
    \A p \in ProcIds, d \in Diagnostics :
        (procs[p].st = "running" /\ ~d.mem /\ ~d.rtsp) => OnlyReported(p, d)

\* C11, amended: the same for a chunk that, besides matching neither pattern
\* family, does not contain both "error" and "fatal".
C11_NonFatalDiagnosticOnlyReported ==
    \A p \in ProcIds, d \in Diagnostics :
        (procs[p].st = "running" /\ ~d.mem /\ ~d.rtsp /\ ~(d.error /\ d.fatal))
            => OnlyReported(p, d)

\* An "ffmpeg-stderr" error has just been sent and the session goes on.
C11_Witness ==
    /\ outbox = <<"ffmpeg-stderr">>
    /\ wsReadyState = "OPEN"
    /\ \E p \in ProcIds : procs[p].st = "running" /\ ~procs[p].cleanedUp

\* The encoder the session holds: the process in transcoder, or the current
\* process of the sequential transcoder in it (0: none).
SessionEncoder ==
    CASE transcoder.kind = "proc" -> transcoder.id
      [] transcoder.kind = "seq" -> seqs[transcoder.id].cur
      [] OTHER -> 0

\* C12: when the heartbeat timer fires on a connection that is still open and
\* no pong has arrived since the tick before (isAlive is still false), the
\* connection is closed with code 4000, the session's teardown runs (the
\* session is closed and the timer cleared) and the session's encoder is
\* signalled to terminate; a tick that finds isAlive set only clears it.
C12_HeartbeatExpiry ==
    [][(heartbeatOn /\ ~connectionClosed /\ wsReadyState = "OPEN"
            /\ HeartbeatTimerFires) =>
          IF isAlive
          THEN ~isAlive' /\ wsReadyState' = "OPEN" /\ ~connectionClosed'
               /\ procs' = procs
          ELSE /\ wsReadyState' = "CLOSING"
               /\ closeCode' = 4000
               /\ closeCode' \notin {1001, 1008, 1011}
               /\ connectionClosed'
               /\ ~heartbeatOn'
               /\ SessionEncoder # 0 => Killed(procs'[SessionEncoder])]_vars

\* The monitor has just closed a streaming session.
C12_Witness ==
    /\ closeCode = 4000
    /\ wsReadyState = "CLOSING"
    /\ connectionClosed
    /\ ~isAlive
    /\ SessionEncoder # 0
    /\ procs[SessionEncoder].st = "running"
    /\ procs[SessionEncoder].signals = 1

\* C13: a {type:"ping"} control message received on an open connection is
\* answered with a {type:"pong"} message.
C13_PingAnswered ==
    wsReadyState = "OPEN" => onMessage(ServerState, "ping").out = <<"pong">>

\* request_init, without and with a codecType.
InitRequests == {"request_init", "request_init_codec"}

\* C14: the first encoder of a session is started by a request_init message:
\* no encoder is started for a connection that has not sent one.
C14_NoEncoderBeforeRequestInit ==
    [][(Born(procs) = {} /\ Born(procs') # {}) =>
            \E m \in InitRequests : MessageReceived(m)]_vars

\* C15: once an encoder has been started for the session, the message
\* handler's result for a further request_init is the session as it was: no
\* process started, none signalled, no variable changed, nothing sent.
C15_LaterRequestInitIgnored ==
    Born(procs) # {} =>
        \A m \in InitRequests : onMessage(ServerState, m) = ServerState

\* A streaming session on which a request_init can still arrive.
C15_Witness ==
    /\ wsReadyState = "OPEN"
    /\ isInitialized
    /\ ~initTimer
    /\ transcoder.kind = "proc"
    /\ procs[transcoder.id].st = "running"
    /\ ~Killed(procs[transcoder.id])

\* C16: the first request_init of a connection, when it names a codecType,
\* itself starts the encoder and initializes the session.
C16_RequestInitWithCodecStarts ==
    (wsReadyState = "OPEN" /\ ~connectionClosed /\ ~isInitialized) =>
        LET s == onMessage(ServerState, "request_init_codec")
        IN Born(s.procs) # Born(procs) /\ s.init

\* Process p is a full-mode encoder that the mode-switch branch has signalled
\* (memoryErrorDetected is set by that branch only).
SwitchKilled(p) ==
    /\ memoryErrorDetected
    /\ procs[p].n = nCameras
    /\ procs[p].st = "running"
    /\ Killed(procs[p])
    /\ ~procs[p].cleanedUp

\* C19: the mode switch does not end the session: when the encoder it has
\* terminated exits, the connection stays open and nothing is sent to the
\* client.
C19_SwitchKeepsSession ==
    [][\A p \in ProcIds :
            (wsReadyState = "OPEN" /\ SwitchKilled(p) /\ ProcessExit(p)) =>
                (wsReadyState' = "OPEN" /\ outbox' = <<>>)]_vars

\* Process p is a subgroup encoder that the rotation timer of a session
\* started in degraded mode has signalled.
RotationKilled(p) ==
    /\ useMemoryOptimization
    /\ ~memoryErrorDetected
    /\ procs[p].st = "running"
    /\ Killed(procs[p])
    /\ ~procs[p].cleanedUp

\* C20: the rotation goes on with the connection open: the rotation timer
\* signals the current subgroup's encoder and starts the next subgroup's
\* (round-robin, wrapping to the first), and the exit of the encoder it
\* signalled leaves the connection open.
C20_RotationKeepsConnection ==
    [][/\ \A q \in SeqIds :
            (wsReadyState = "OPEN" /\ seqs[q].made /\ seqs[q].cur # 0
                    /\ RotationTimerFires(q)) =>
                /\ Killed(procs'[seqs[q].cur])
                /\ seqs'[q].cur \notin Born(procs)
                /\ seqs'[q].idx = (seqs[q].idx + 1) % NumGroups(nCameras)
                /\ procs'[seqs'[q].cur].n = GroupSize(nCameras, seqs'[q].idx)
                /\ wsReadyState' = "OPEN"
       /\ \A p \in ProcIds :
            (wsReadyState = "OPEN" /\ RotationKilled(p) /\ ProcessExit(p)) =>
                wsReadyState' = "OPEN"]_vars

\* C17: a connection whose cameraIds parameter is absent or does not list
\* exactly 6 ids is closed with code 1008 when it connects, and no encoder
\* process is ever started for it.
C17_WrongIdCountRejected ==
    cameraIdsParam # 6 =>
        (wsReadyState # "OPEN" /\ closeCode = 1008 /\ Born(procs) = {})

\* C21: once the session is closed no encoder process is started for it any
\* more, and when the transport is closed as well none of its encoder
\* processes is alive.
C21_NothingAfterClose ==
    [][connectionClosed =>
          /\ Born(procs') = Born(procs)
          /\ wsReadyState' = "CLOSED" => AliveEncoders' = {}]_vars

\* C23: the message handler's result for a message that cannot be parsed or
\* whose type is unknown is the session as it was: no variable changed, no
\* process started or signalled, the connection not closed, nothing sent.
C23_UnknownMessageIgnored ==
    wsReadyState # "CLOSED" => onMessage(ServerState, "other") = ServerState

\* A session in degraded mode with a running encoder, on which such a
\* message can arrive.
C23_Witness ==
    /\ wsReadyState = "OPEN"
    /\ isInitialized
    /\ transcoder.kind = "seq"
    /\ seqs[transcoder.id].cur # 0
    /\ procs[seqs[transcoder.id].cur].st = "running"

\* C27: every process started by createTranscoder was given exactly 6 camera
\* ids.
C27_SixIdsPerEncoder == \A p \in Born(procs) : procs[p].n = GridTiles

SendFailed(p) == procs[p].cleanedUp /\ wsReadyState = "OPEN"

\* The class a diagnostic chunk is reported under: the first of memory, rtsp,
\* generic error and warning that it matches, "none" when it matches none.
DiagnosticClass(d) ==
    IF d.mem THEN "memory"
    ELSE IF d.rtsp THEN "rtsp"
    ELSE IF d.error THEN "ffmpeg-stderr"
    ELSE IF d.warning THEN "warning"
    ELSE "none"

\* C32: for every diagnostic chunk the stderr handler of a running encoder
\* sends at most one typed message, and its class is the highest one the
\* chunk matches in the order memory, rtsp, generic error, warning: on an
\* open connection exactly that message, otherwise none.
C32_OneMessagePerChunk ==
    \A p \in ProcIds, d \in Diagnostics :
        procs[p].st = "running" =>
            LET out == stderrData(ServerState, p, d).out
            IN /\ Len(out) <= 1
               /\ out = IF wsReadyState = "OPEN" /\ DiagnosticClass(d) # "none"
                        THEN <<DiagnosticClass(d)>>
                        ELSE <<>>

\* A warning has just been reported on an open connection whose encoder runs
\* (the run's chunks with a warning include one that also says "error" and
\* one that also matches an RTSP pattern).
C32_Witness ==
    /\ outbox = <<"warning">>
    /\ wsReadyState = "OPEN"
    /\ \E p \in ProcIds : procs[p].st = "running"
\* C36: the registry is consistent with the encoders: every alive encoder of
\* the connection is the process activeTranscoders holds for it, and no step
\* deletes the registry entry of an encoder that is alive after the step.
C36_RegistryConsistent ==
    [][/\ \A p \in AliveEncoders' : activeTranscoders' = p
       /\ ~(activeTranscoders \in AliveEncoders' /\ activeTranscoders' = 0)]_vars
\* C40: a tick of the heartbeat closes the connection only when the ping of
\* the tick before is still unanswered: no tick closes a connection whose
\* peer has answered the last ping, the first tick after the open never
\* closes it, and code 4000 is set only with a ping pending.
C40_AnsweredPingsKeepOpen ==
    [][/\ (HeartbeatTimerFires /\ pingState \in {"none", "answered"}) =>
            /\ wsReadyState' = wsReadyState
            /\ closeCode' = closeCode
            /\ connectionClosed' = connectionClosed
            /\ procs' = procs
       /\ (closeCode' = 4000 /\ closeCode # 4000) => pingState = "pending"]_vars

\* A tick has sent a ping and the peer has answered it: the connection is
\* open, its encoder runs and the next tick is due.
C40_Witness ==
    /\ pingState = "answered"
    /\ isAlive
    /\ heartbeatOn
    /\ wsReadyState = "OPEN"
    /\ closeCode = 0
    /\ ~connectionClosed
    /\ SessionEncoder # 0
    /\ procs[SessionEncoder].st = "running"

C22_SendFailureTearsDown ==
    /\ [][\A p \in ProcIds :
            (procs[p].sending /\ SendFails(p)) =>
                /\ procs'[p].cleanedUp
                /\ procs[p].st = "running" => Killed(procs'[p])]_vars
    /\ (\E p \in ProcIds : SendFailed(p))
            ~> (connectionClosed /\ ~heartbeatOn /\ wsReadyState = "CLOSED")

C22_Witness ==
    \E p \in ProcIds :
        SendFailed(p) /\ procs[p].st = "running" /\ procs[p].signals = 1
            /\ ~connectionClosed /\ heartbeatOn

-----------------------------------------------------------------------------
(* Claims about the standalone proxy, checked under SpecProxy.             *)

\* C18: a proxy connection that presents exactly 6 ids is not closed with
\* 1008, and its first request_init starts exactly one encoder process.
C18_SixIdsAccepted ==
    \A c \in ConnIds :
        (conns[c].st # "none" /\ conns[c].ids = 6) =>
            /\ conns[c].code # 1008
            /\ conns[c].init => conns[c].spawned = 1

=============================================================================
